---- MODULE Spec2Model ----
(***************************************************************************)
(* State-machine model of the QTR reflectance sensor library               *)
(* (src/QTRSensors.cpp).  The C++ types are those of the AVR Arduino       *)
(* targets the library is written for: int and unsigned int are 16 bits,   *)
(* long and unsigned long are 32 bits, unsigned char is 8 bits.            *)
(***************************************************************************)
EXTENDS Integers, Sequences, FiniteSets, TLC

(***************************************************************************)
(* Bounds of the model.                                                    *)
(***************************************************************************)
\* largest sensor count passed to init() in the specification Spec
MaxSensors == 2
\* the RC timeout (hence _maxValue) passed to init() in Spec
SmallTimeout == 1
\* the RC timeout of the one-sensor array of SpecCal
CalTimeout == 3
\* the RC timeout of the array of SpecNorm
NormTimeout == 34
\* largest sensor count of the arrays of SpecLine
LineSensors == 4
\* the RC timeout of the arrays of SpecLine
LineTimeout == 1000

(***************************************************************************)
(* Program constants.                                                      *)
(***************************************************************************)
\* number of read passes of one calibrateOnOrOff call
NumPasses == 10
\* a sensor counts as seeing the line above this calibrated value
OnLineThreshold == 200
\* a sensor is averaged in only above this calibrated value
NoiseThreshold == 50
\* top of the calibrated range
CalibratedMax == 1000
\* QTR_MAX_SENSORS
QTR_MAX_SENSORS == 31
\* QTR_NO_EMITTER_PIN
QTR_NO_EMITTER_PIN == 255
\* settle time of the plain emittersOff() and emittersOn(), in microseconds
PlainSettle == 200
\* time QTRDimmable gives a bank to turn off
DimmableOffSettle == 1200
\* time QTRDimmable gives a bank to turn on
DimmableOnSettle == 300
\* period of the waiting loops of QTRDimmable
WaitPeriod == 10
\* largest dimming level setDimmingLevel() stores
MaxDimmingLevel == 31

QTR_BANK_ODD == "odd"
QTR_BANK_EVEN == "even"

QTR_EMITTERS_OFF == "Off"
QTR_EMITTERS_ON == "On"
QTR_EMITTERS_ON_AND_OFF == "OnAndOff"
QTR_EMITTERS_ODD_EVEN == "OddEven"
QTR_EMITTERS_ODD_EVEN_AND_OFF == "OddEvenAndOff"
QTR_EMITTERS_MANUAL == "Manual"

ReadModes ==
  {QTR_EMITTERS_OFF, QTR_EMITTERS_ON, QTR_EMITTERS_ON_AND_OFF,
   QTR_EMITTERS_ODD_EVEN, QTR_EMITTERS_ODD_EVEN_AND_OFF, QTR_EMITTERS_MANUAL}

(***************************************************************************)
(* Machine arithmetic.                                                     *)
(***************************************************************************)
\* value of an expression stored in an unsigned int (16 bits)
U16(x) == x % 65536

\* value of an expression stored in a (signed) int (16 bits, two's complement)
S16(x) == LET u == x % 65536 IN IF u >= 32768 THEN u - 65536 ELSE u

\* C integer division: the quotient truncated toward zero (b # 0)
TruncDiv(a, b) ==
  LET q == (IF a < 0 THEN -a ELSE a) \div (IF b < 0 THEN -b ELSE b)
  IN IF (a < 0) = (b < 0) THEN q ELSE -q

Indices(n) == 0 .. (n - 1)

Min2(a, b) == IF a < b THEN a ELSE b
Max2(a, b) == IF a > b THEN a ELSE b


(***************************************************************************)
(* State.                                                                  *)
(***************************************************************************)
VARIABLES
  dimmable,              \* TRUE: the object is a QTRDimmable*, FALSE: a plain QTRSensors*
  numSensors,            \* _numSensors
  maxValue,              \* _maxValue
  calibratedMinimumOn,   \* [alloc, v]: alloc = FALSE is the null pointer
  calibratedMaximumOn,
  calibratedMinimumOff,
  calibratedMaximumOff,
  lastValue,             \* _lastValue
  pinsLen,               \* number of elements of the array _pins points to
  halted,                \* the program has stopped on a fault (undefined behaviour)
  wasReset,              \* the conditions reset by resetCalibration() and not calibrated since
  cal,                   \* the calibrate() call in progress, if any
  op,                    \* the call in progress or, when none is, the last one made
  emitterPin,            \* _emitterPin
  evenEmitterPin,        \* _evenEmitterPin (QTRDimmable)
  dimmingLevel,          \* _dimmingLevel (QTRDimmable)
  numSamplesPerSensor,   \* _numSamplesPerSensor (QTRSensorsAnalog)
  pin,                   \* the emitter control lines: pin number -> [mode, level]
  log,                   \* what the call in progress or the last call did to the hardware
  acq                    \* the readPrivate() call in progress, if any

vars ==
  <<dimmable, numSensors, maxValue, calibratedMinimumOn, calibratedMaximumOn,
    calibratedMinimumOff, calibratedMaximumOff, lastValue, pinsLen, halted,
    wasReset, cal, op, emitterPin, evenEmitterPin, dimmingLevel,
    numSamplesPerSensor, pin, log, acq>>

calibration ==
  <<calibratedMinimumOn, calibratedMaximumOn, calibratedMinimumOff, calibratedMaximumOff>>

config ==
  <<dimmable, numSensors, maxValue, pinsLen, emitterPin, evenEmitterPin, dimmingLevel,
    numSamplesPerSensor>>

hw == <<pin, log, acq>>

\* a row of n values, all equal to x
Row(n, x) == [i \in Indices(n) |-> x]

\* the null pointer, for an array of n elements
NullArray(n) == [alloc |-> FALSE, v |-> Row(n, 0)]

\* a freshly allocated array of n elements, each x
NewArray(n, x) == [alloc |-> TRUE, v |-> Row(n, x)]

\* raw readings one readPrivate pass can deliver: one value in 0 .. _maxValue per sensor
Readings(n, mv) == [Indices(n) -> 0 .. mv]

\* the readings in which every sensor sees the same surface
UniformReadings(n, mv) == {Row(n, x) : x \in 0 .. mv}

\* what the caller's buffer can hold before a call
StaleValues == {0, 777}

Buffers(n) == {Row(n, x) : x \in StaleValues}

\* the readings of the second pass of a read: it is made in the combined modes only
SecondReadings(mode, n, mv) ==
  IF mode = QTR_EMITTERS_ON_AND_OFF \/ mode = QTR_EMITTERS_ODD_EVEN_AND_OFF
    THEN Readings(n, mv) ELSE {Row(n, 0)}

\* what a read through a null pointer can deliver
Garbage(mv) == {0, mv}

\* no calibrate() call is in progress
CalIdle(n) ==
  [stage |-> "idle", mode |-> QTR_EMITTERS_MANUAL, cond |-> "none", j |-> 0,
   min_sensor_values |-> Row(n, 0), max_sensor_values |-> Row(n, 0),
   lo |-> Row(n, 0), hi |-> Row(n, 0), notAbove |-> 0]

\* summary of the last recorded calibrateOnOrOff pass, for sensor 0: how many of its
\* readings did not exceed the stored maximum (counted up to 2), whether the stored
\* maximum was raised and the stored minimum lowered, and whether resetCalibration()
\* had been called on these bounds since they were last recorded
NoPass ==
  [cond |-> "none", notAbove |-> 0, raised |-> FALSE, lowered |-> FALSE,
   afterReset |-> FALSE]

\* no call is in progress and the caller has dropped the results of the last one
NoCall(n) ==
  [name |-> "none", mode |-> QTR_EMITTERS_MANUAL, white |-> FALSE,
   bufIn |-> Row(n, 0), raw |-> Row(n, 0), bufOut |-> Row(n, 0), ret |-> 0,
   noop |-> FALSE, online |-> FALSE, pass |-> NoPass, passes |-> <<>>,
   bank |-> "", wait |-> FALSE]


(***************************************************************************)
(* read(): the raw values it leaves in the caller's buffer, given what     *)
(* the first readPrivate pass delivers (r) and, in a combined mode, the    *)
(* second pass taken after emittersOff() (rOff).                           *)
(***************************************************************************)
\* QTRSensors::read
ReadPlain(mode, n, mv, r, rOff) ==
  [i \in Indices(n) |->
     IF mode = QTR_EMITTERS_ON_AND_OFF
       THEN U16(r[i] + U16(mv - rOff[i]))
       ELSE r[i]]

\* QTRDimmable::read
ReadDimmable(mode, n, mv, r, rOff) ==
  [i \in Indices(n) |->
     IF mode = QTR_EMITTERS_ON_AND_OFF \/ mode = QTR_EMITTERS_ODD_EVEN_AND_OFF
       THEN U16(r[i] + U16(mv - rOff[i]))
       ELSE r[i]]

\* the readPrivate() passes of a read that fill whole arrays: the first, and in a
\* combined mode the one into off_values
Passes(dim, mode, r, rOff) ==
  IF mode = QTR_EMITTERS_ON_AND_OFF \/ (dim /\ mode = QTR_EMITTERS_ODD_EVEN_AND_OFF)
    THEN <<r, rOff>> ELSE <<r>>

\* the virtual call read(sensor_values, readMode)
Read(dim, mode, n, mv, r, rOff) ==
  IF dim THEN ReadDimmable(mode, n, mv, r, rOff) ELSE ReadPlain(mode, n, mv, r, rOff)

(***************************************************************************)
(* readCalibrated().                                                       *)
(***************************************************************************)
\* the "if not calibrated, do nothing" tests
NotCalibrated(mode, minOn, maxOn, minOff, maxOff) ==
  \/ /\ (mode = QTR_EMITTERS_ON_AND_OFF \/ mode = QTR_EMITTERS_OFF)
     /\ (~minOff.alloc \/ ~maxOff.alloc)
  \/ /\ (mode = QTR_EMITTERS_ON_AND_OFF \/ mode = QTR_EMITTERS_ON)
     /\ (~minOn.alloc \/ ~maxOn.alloc)

\* the loop of readCalibrated indexes the "on" arrays in this mode
UsesOn(mode) == mode # QTR_EMITTERS_OFF

\* the loop of readCalibrated indexes the "off" arrays in this mode
UsesOff(mode) == mode # QTR_EMITTERS_ON

\* what indexing array p can deliver: its elements, or anything through a null pointer
Contents(p, n, mv) == IF p.alloc THEN {p.v} ELSE {Row(n, g) : g \in Garbage(mv)}

\* calmin of sensor i ("find the correct calibration")
CalMin(mode, mv, minOn, minOff, i) ==
  IF mode = QTR_EMITTERS_ON THEN minOn[i]
  ELSE IF mode = QTR_EMITTERS_OFF THEN minOff[i]
  ELSE IF minOff[i] < minOn[i] THEN mv
  ELSE U16(U16(minOn[i] + mv) - minOff[i])

\* calmax of sensor i
CalMax(mode, mv, maxOn, maxOff, i) ==
  IF mode = QTR_EMITTERS_ON THEN maxOn[i]
  ELSE IF mode = QTR_EMITTERS_OFF THEN maxOff[i]
  ELSE IF maxOff[i] < maxOn[i] THEN mv
  ELSE U16(U16(maxOn[i] + mv) - maxOff[i])

\* a normalizer that forgets the upper clamp
NormalizeNoUpperClamp(raw, calmin, calmax) ==
  LET denominator == U16(calmax - calmin)
      x == IF denominator # 0
             THEN S16(TruncDiv((raw - calmin) * CalibratedMax, denominator))
             ELSE 0
  IN IF x < 0 THEN 0 ELSE x

\* the value stored back for one sensor
Normalize(raw, calmin, calmax) ==
  LET denominator == U16(calmax - calmin)
      x == IF denominator # 0
             THEN S16(TruncDiv((raw - calmin) * CalibratedMax, denominator))
             ELSE 0
  IN IF x < 0 THEN 0 ELSE IF x > CalibratedMax THEN CalibratedMax ELSE x

\* the buffer after the loop of readCalibrated
Calibrated(mode, n, mv, raw, minOn, maxOn, minOff, maxOff) ==
  [i \in Indices(n) |->
     Normalize(raw[i], CalMin(mode, mv, minOn, minOff, i),
               CalMax(mode, mv, maxOn, maxOff, i))]

(***************************************************************************)
(* readLine(): the arithmetic after its call of readCalibrated.            *)
(***************************************************************************)
\* "int value = sensor_values[i]; if(white_line) value = 1000-value;"
LineValue(buf, white, i) ==
  LET value == S16(buf[i]) IN IF white THEN S16(1000 - value) ELSE value

\* on_line after the loop
OnLine(buf, white, n) ==
  \E i \in Indices(n) : LineValue(buf, white, i) > OnLineThreshold

\* an avg that weights sensor i by (i + 1) * 1000
RECURSIVE AvgOneBased(_, _, _)
AvgOneBased(buf, white, k) ==
  IF k = 0 THEN 0
  ELSE LET value == LineValue(buf, white, k - 1)
       IN IF value > NoiseThreshold
            THEN AvgOneBased(buf, white, k - 1) + value * S16(k * 1000)
            ELSE AvgOneBased(buf, white, k - 1)

\* avg after the first k sensors.  avg is an unsigned long: with values of at
\* most 32767 and the sensor counts of the model it stays far below 2^32
RECURSIVE Avg(_, _, _)
Avg(buf, white, k) ==
  IF k = 0 THEN 0
  ELSE LET i == k - 1
           value == LineValue(buf, white, i)
       IN IF value > NoiseThreshold
            THEN Avg(buf, white, i) + value * S16(i * 1000)
            ELSE Avg(buf, white, i)

\* a sum that takes in the sensors under the noise threshold too
RECURSIVE SumAll(_, _, _)
SumAll(buf, white, k) ==
  IF k = 0 THEN 0
  ELSE U16(SumAll(buf, white, k - 1) + LineValue(buf, white, k - 1))

\* sum after the first k sensors
RECURSIVE Sum(_, _, _)
Sum(buf, white, k) ==
  IF k = 0 THEN 0
  ELSE LET i == k - 1
           value == LineValue(buf, white, i)
       IN IF value > NoiseThreshold
            THEN U16(Sum(buf, white, i) + value)
            ELSE Sum(buf, white, i)

\* a lost-line rule that takes the exact centre for the left side
LostLineInclusive(last, n) ==
  IF last <= TruncDiv(S16((n - 1) * 1000), 2) THEN 0 ELSE S16((n - 1) * 1000)

\* the value returned when on_line is 0
LostLine(last, n) ==
  IF last < TruncDiv(S16((n - 1) * 1000), 2) THEN 0 ELSE S16((n - 1) * 1000)

\* "_lastValue = avg/sum" (sum # 0)
Position(buf, white, n) == S16(Avg(buf, white, n) \div Sum(buf, white, n))


(***************************************************************************)
(* The emitter control lines.  The functions that drive them are modelled  *)
(* as operators on h = [pin, log, t]: the state of the lines, the events   *)
(* so far, and the time in microseconds (micros()).  Only the delays the   *)
(* code asks for take time.                                                *)
(***************************************************************************)
\* the pin numbers used for the emitter control lines
Lines == {4, 5}

\* the lines after reset
LinesAtReset == [p \in Lines |-> [mode |-> "INPUT", level |-> "LOW"]]

\* no readPrivate() call is in progress
AcqIdle == [stage |-> "idle"]

\* the lines that are driven active
Lit(lines) == {p \in Lines : lines[p].mode = "OUTPUT" /\ lines[p].level = "HIGH"}

\* an event of the log: what was done (e), to which pin, with which value (v) or
\* count (n), at which time; for a readPrivate() call, the lines that were driven
\* active meanwhile
Event(e, p, v, n, t, lit) ==
  [e |-> e, pin |-> p, v |-> v, n |-> n, at |-> t, lit |-> lit]

Note(h, e, p, v, n) == [h EXCEPT !.log = Append(@, Event(e, p, v, n, h.t, {}))]

\* pinMode(p, m): the Arduino core clears the output bit when it makes a pin an input
PinMode(h, p, m) ==
  Note([h EXCEPT !.pin[p] = [mode |-> m, level |-> IF m = "INPUT" THEN "LOW" ELSE @.level]],
       "pinMode", p, m, 0)

\* digitalWrite(p, level)
DigitalWrite(h, p, level) ==
  Note([h EXCEPT !.pin[p].level = level], "digitalWrite", p, level, 0)

\* delayMicroseconds(us)
DelayMicroseconds(h, us) ==
  [Note(h, "delay", QTR_NO_EMITTER_PIN, "", us) EXCEPT !.t = @ + us]

\* readPrivate(...): which is "all", "odd" (step 2, start 0), "even" (step 2,
\* start 1) or "off" (all sensors, into off_values)
ReadPrivate(h, which) ==
  [h EXCEPT !.log = Append(@, Event("readPrivate", QTR_NO_EMITTER_PIN, which, 0, h.t,
                                    Lit(h.pin)))]

\* "while ((unsigned int)(micros() - start) < limit) delayMicroseconds(10);"
\* with start an unsigned int: the time at which the loop ends when entered at t.
\* The loop runs until the 16-bit difference, which grows by 10 each round from
\* below limit, reaches limit (limit + 10 is far below 65536: it cannot wrap first).
WaitEnd(t, start, limit) ==
  LET waited == U16(t - start)
  IN IF waited < limit
       THEN t + WaitPeriod * ((limit - waited + WaitPeriod - 1) \div WaitPeriod)
       ELSE t

\* the waiting loop, logged as one delay
WaitSince(h, start, limit) ==
  LET end == WaitEnd(h.t, start, limit)
  IN IF end = h.t THEN h ELSE DelayMicroseconds(h, end - h.t)

\* QTRSensors::emittersOff
PlainEmittersOff(h) ==
  IF emitterPin = QTR_NO_EMITTER_PIN THEN h
  ELSE DelayMicroseconds(
         DigitalWrite(PinMode(h, emitterPin, "OUTPUT"), emitterPin, "LOW"), PlainSettle)

\* QTRSensors::emittersOn
PlainEmittersOn(h) ==
  IF emitterPin = QTR_NO_EMITTER_PIN THEN h
  ELSE DelayMicroseconds(
         DigitalWrite(PinMode(h, emitterPin, "OUTPUT"), emitterPin, "HIGH"), PlainSettle)

\* ePin of a bank
BankPin(bank) == IF bank = QTR_BANK_ODD THEN emitterPin ELSE evenEmitterPin

\* QTRDimmable::emittersOff(bank, wait)
BankEmittersOff(h, bank, wait) ==
  LET ePin == BankPin(bank) IN
  IF ePin = QTR_NO_EMITTER_PIN THEN h
  ELSE LET h1 == DigitalWrite(PinMode(h, ePin, "OUTPUT"), ePin, "LOW")
       IN IF wait THEN DelayMicroseconds(h1, DimmableOffSettle) ELSE h1

\* the dimming pulses without the interrupts() after them
DimmingPulsesLeftMasked(h, ePin) ==
  [Note(Note(h, "noInterrupts", QTR_NO_EMITTER_PIN, "", 0),
        "pulses", ePin, "HIGH", dimmingLevel)
     EXCEPT !.t = @ + 2 * dimmingLevel]

\* "noInterrupts(); for (i = 0; i < _dimmingLevel; i++) { ... } interrupts();":
\* the _dimmingLevel pulses (1 us low, 1 us high each, the line ending HIGH) are
\* logged as one event
DimmingPulses(h, ePin) ==
  Note([Note(Note(h, "noInterrupts", QTR_NO_EMITTER_PIN, "", 0),
             "pulses", ePin, "HIGH", dimmingLevel)
          EXCEPT !.t = @ + 2 * dimmingLevel],
       "interrupts", QTR_NO_EMITTER_PIN, "", 0)

\* an emittersOn(bank, wait) that never waits
BankEmittersOnNoWait(h, bank, wait) ==
  LET ePin == BankPin(bank) IN
  IF ePin = QTR_NO_EMITTER_PIN THEN h
  ELSE DimmingPulses(DigitalWrite(PinMode(h, ePin, "OUTPUT"), ePin, "HIGH"), ePin)

\* QTRDimmable::emittersOn(bank, wait)
BankEmittersOn(h, bank, wait) ==
  LET ePin == BankPin(bank) IN
  IF ePin = QTR_NO_EMITTER_PIN THEN h
  ELSE LET h1 == DigitalWrite(PinMode(h, ePin, "OUTPUT"), ePin, "HIGH")
           turnOnStart == U16(h1.t)
           h2 == DimmingPulses(h1, ePin)
       IN IF wait THEN WaitSince(h2, turnOnStart, DimmableOnSettle) ELSE h2

\* "Stop driving even emitter ctrl pin"
ReleaseEven(h) ==
  IF evenEmitterPin # QTR_NO_EMITTER_PIN THEN PinMode(h, evenEmitterPin, "INPUT") ELSE h

\* QTRDimmable::emittersOff()
DimmableEmittersOff(h) == BankEmittersOff(ReleaseEven(h), QTR_BANK_ODD, TRUE)

\* QTRDimmable::emittersOn()
DimmableEmittersOn(h) == BankEmittersOn(ReleaseEven(h), QTR_BANK_ODD, TRUE)

\* emitterBankSelect without its final waiting loop
EmitterBankSelectNoWait(h, bank) ==
  BankEmittersOn(
    BankEmittersOff(h, IF bank = QTR_BANK_ODD THEN QTR_BANK_EVEN ELSE QTR_BANK_ODD, FALSE),
    bank, TRUE)

\* QTRDimmable::emitterBankSelect
EmitterBankSelect(h, bank) ==
  LET offBank == IF bank = QTR_BANK_ODD THEN QTR_BANK_EVEN ELSE QTR_BANK_ODD
      h1 == BankEmittersOff(h, offBank, FALSE)
      turnOffStart == U16(h1.t)
  IN WaitSince(BankEmittersOn(h1, bank, TRUE), turnOffStart, DimmableOffSettle)

\* an emittersOff() that leaves the lines as they are
KeepEmitters(h) == h

\* the virtual calls emittersOff() and emittersOn()
EmittersOff(h) == IF dimmable THEN DimmableEmittersOff(h) ELSE PlainEmittersOff(h)
EmittersOn(h) == IF dimmable THEN DimmableEmittersOn(h) ELSE PlainEmittersOn(h)

\* a read that switches the emitters off afterwards in every mode
ReadHwAlwaysOff(h, mode) == EmittersOff(ReadPrivate(h, "all"))

\* what read(sensor_values, readMode) does to the hardware
ReadHw(h, mode) ==
  LET h1 == IF dimmable /\ (mode = QTR_EMITTERS_ODD_EVEN
                            \/ mode = QTR_EMITTERS_ODD_EVEN_AND_OFF)
              THEN ReadPrivate(EmitterBankSelect(
                     ReadPrivate(EmitterBankSelect(h, QTR_BANK_ODD), "odd"),
                     QTR_BANK_EVEN), "even")
              ELSE ReadPrivate(
                     IF mode = QTR_EMITTERS_ON \/ mode = QTR_EMITTERS_ON_AND_OFF
                       THEN EmittersOn(h)
                     ELSE IF mode = QTR_EMITTERS_OFF THEN EmittersOff(h)
                     ELSE h, "all")
      h2 == IF mode # QTR_EMITTERS_MANUAL THEN EmittersOff(h1) ELSE h1
  IN IF mode = QTR_EMITTERS_ON_AND_OFF
        \/ (dimmable /\ mode = QTR_EMITTERS_ODD_EVEN_AND_OFF)
       THEN ReadPrivate(h2, "off") ELSE h2

\* the hardware when a call starts at time t
Hardware(t) == [pin |-> pin, log |-> <<>>, t |-> t]

\* the lines and the log after the call that ended with h; the log ends with the
\* time of the return
Ran(h) ==
  /\ pin' = h.pin
  /\ log' = Append(h.log, Event("return", QTR_NO_EMITTER_PIN, "", 0, h.t, {}))
  /\ UNCHANGED acq

\* the call makes one read(sensor_values, mode)
RunRead(mode) == Ran(ReadHw(Hardware(0), mode))

\* after init() with emitter control pins e and even, before any call
EmitterPins(e, even) ==
  /\ emitterPin = e
  /\ evenEmitterPin = even
  /\ dimmingLevel = 0
  /\ numSamplesPerSensor = 0
  /\ pin = LinesAtReset
  /\ log = <<>>
  /\ acq = AcqIdle

\* no emitter control line is connected
NoEmitterPins == EmitterPins(QTR_NO_EMITTER_PIN, QTR_NO_EMITTER_PIN)

(***************************************************************************)
(* Calls.  A call is made only when no other call is in progress and the   *)
(* program has not faulted; op then describes the call until the caller    *)
(* has looked at its results (Return).                                     *)
(***************************************************************************)
Ready == ~halted /\ cal.stage = "idle" /\ op.name = "none"

\* op for a call: bufIn and bufOut are the caller's buffer before and after it, raw
\* the buffer after the read() it makes (bufIn if it makes none), ret its result;
\* passes is kept for read() only: what its readPrivate() passes delivered; bank and
\* wait are the arguments of a call that switches emitters
Call(name, mode, white, bufIn, raw, bufOut, ret, noop, online) ==
  [name |-> name, mode |-> mode, white |-> white, bufIn |-> bufIn, raw |-> raw,
   bufOut |-> bufOut, ret |-> ret, noop |-> noop, online |-> online, pass |-> NoPass,
   passes |-> <<>>, bank |-> "", wait |-> FALSE]

\* the program stops on a fault
Fault ==
  halted' = TRUE /\ UNCHANGED <<config, calibration, lastValue, wasReset, cal, op, hw>>

\* the call has returned and the caller goes on
Return ==
  /\ ~halted
  /\ cal.stage = "idle"
  /\ op.name # "none"
  /\ op' = NoCall(numSensors)
  /\ log' = <<>>
  /\ UNCHANGED <<config, calibration, lastValue, halted, wasReset, cal, pin, acq>>

\* init(pins, numSensors, timeout, emitterPin) of the RC classes when _pins is null
\* and malloc fails: QTRSensors::init returns before it copies the pins and before
\* it stores the emitter pin
InitNoMemoryCall(n, timeout) ==
  LET count == IF n > QTR_MAX_SENSORS THEN QTR_MAX_SENSORS ELSE n IN
  /\ Ready
  /\ pinsLen = 0
  /\ numSensors' = count
  /\ maxValue' = timeout
  /\ calibratedMinimumOn' = NullArray(count)
  /\ calibratedMaximumOn' = NullArray(count)
  /\ calibratedMinimumOff' = NullArray(count)
  /\ calibratedMaximumOff' = NullArray(count)
  /\ lastValue' = 0
  /\ wasReset' = {}
  /\ cal' = CalIdle(count)
  /\ op' = [NoCall(count) EXCEPT !.name = "init"]
  /\ UNCHANGED <<dimmable, pinsLen, halted, emitterPin, evenEmitterPin,
                 dimmingLevel, numSamplesPerSensor, hw>>

\* init(pins, numSensors, timeout, emitterPin) of the RC classes, called again with
\* the emitter pins it was first called with; malloc, if called, succeeds
InitCall(n, timeout) ==
  LET count == IF n > QTR_MAX_SENSORS THEN QTR_MAX_SENSORS ELSE n IN
  /\ Ready
  /\ \/ /\ numSensors' = count
        /\ maxValue' = timeout
        /\ calibratedMinimumOn' = NullArray(count)
        /\ calibratedMaximumOn' = NullArray(count)
        /\ calibratedMinimumOff' = NullArray(count)
        /\ calibratedMaximumOff' = NullArray(count)
        /\ lastValue' = 0
        /\ wasReset' = {}
        /\ cal' = CalIdle(count)
        /\ op' = [NoCall(count) EXCEPT !.name = "init"]
        /\ pinsLen' = IF pinsLen = 0 THEN count ELSE pinsLen
        /\ UNCHANGED <<dimmable, halted, emitterPin, evenEmitterPin,
                       dimmingLevel, numSamplesPerSensor, hw>>
     \/ \* _pins is not reallocated: a larger count writes past its end
        /\ pinsLen > 0
        /\ count > pinsLen
        /\ Fault

\* what the first readPrivate(sensor_values) of a read leaves in the buffer:
\* "if (_pins == 0) return;" leaves what it held
FirstPass(bufIn, r) == IF pinsLen = 0 THEN bufIn ELSE r

\* read(sensor_values, readMode); when _pins is null, rOff is what the
\* uninitialized off_values holds
ReadCall(mode, bufIn, r, rOff) ==
  /\ Ready
  /\ LET raw == Read(dimmable, mode, numSensors, maxValue, FirstPass(bufIn, r), rOff)
     IN op' = [Call("read", mode, FALSE, bufIn, raw, raw, 0, FALSE, FALSE)
                 EXCEPT !.passes = Passes(dimmable, mode, FirstPass(bufIn, r), rOff)]
  /\ RunRead(mode)
  /\ UNCHANGED <<config, calibration, lastValue, halted, wasReset, cal>>

\* a call that only switches emitters, started at time t, ending with hardware h
EmitterCall(name, bank, wait, h) ==
  /\ Ready
  /\ op' = [NoCall(numSensors) EXCEPT !.name = name, !.bank = bank, !.wait = wait]
  /\ Ran(h)
  /\ UNCHANGED <<config, calibration, lastValue, halted, wasReset, cal>>

\* emittersOff()
EmittersOffCall(t) == EmitterCall("emittersOff", "", TRUE, EmittersOff(Hardware(t)))

\* emittersOn()
EmittersOnCall(t) == EmitterCall("emittersOn", "", TRUE, EmittersOn(Hardware(t)))

\* QTRDimmable::emittersOff(bank, wait)
BankEmittersOffCall(bank, wait, t) ==
  /\ dimmable
  /\ EmitterCall("emittersOff", bank, wait, BankEmittersOff(Hardware(t), bank, wait))

\* QTRDimmable::emittersOn(bank, wait)
BankEmittersOnCall(bank, wait, t) ==
  /\ dimmable
  /\ EmitterCall("emittersOn", bank, wait, BankEmittersOn(Hardware(t), bank, wait))

\* QTRDimmable::emitterBankSelect(bank)
EmitterBankSelectCall(bank, t) ==
  /\ dimmable
  /\ EmitterCall("emitterBankSelect", bank, TRUE, EmitterBankSelect(Hardware(t), bank))

\* QTRDimmable::setDimmingLevel(dimmingLevel)
SetDimmingLevelCall(level) ==
  /\ Ready
  /\ dimmable
  /\ dimmingLevel' = IF level > MaxDimmingLevel THEN MaxDimmingLevel ELSE level
  /\ op' = [NoCall(numSensors) EXCEPT !.name = "setDimmingLevel"]
  /\ UNCHANGED <<dimmable, numSensors, maxValue, pinsLen, emitterPin, evenEmitterPin,
                 numSamplesPerSensor, calibration, lastValue, halted, wasReset, cal, hw>>

\* the ways readCalibrated(sensor_values, readMode) can end:
\* buf is the caller's buffer afterwards
ReadCalibratedOutcomes(mode, bufIn, r, rOff) ==
  LET raw == Read(dimmable, mode, numSensors, maxValue, FirstPass(bufIn, r), rOff)
      View(p, used) == IF used THEN Contents(p, numSensors, maxValue) ELSE {p.v}
      nullUsed ==
        \/ UsesOn(mode) /\ (~calibratedMinimumOn.alloc \/ ~calibratedMaximumOn.alloc)
        \/ UsesOff(mode) /\ (~calibratedMinimumOff.alloc \/ ~calibratedMaximumOff.alloc)
  IN IF NotCalibrated(mode, calibratedMinimumOn, calibratedMaximumOn,
                      calibratedMinimumOff, calibratedMaximumOff)
       THEN {[raw |-> bufIn, buf |-> bufIn, noop |-> TRUE, fault |-> FALSE]}
       ELSE {[raw |-> raw, buf |-> Calibrated(mode, numSensors, maxValue, raw, a, b, c, d),
              noop |-> FALSE, fault |-> FALSE] :
                a \in View(calibratedMinimumOn, UsesOn(mode)),
                b \in View(calibratedMaximumOn, UsesOn(mode)),
                c \in View(calibratedMinimumOff, UsesOff(mode)),
                d \in View(calibratedMaximumOff, UsesOff(mode))}
            \cup (IF nullUsed
                    THEN {[raw |-> raw, buf |-> raw, noop |-> FALSE, fault |-> TRUE]}
                    ELSE {})

ReadCalibratedCall(mode, bufIn, r, rOff) ==
  /\ Ready
  /\ \E o \in ReadCalibratedOutcomes(mode, bufIn, r, rOff) :
       IF o.fault THEN Fault
       ELSE /\ op' = Call("readCalibrated", mode, FALSE, bufIn, o.raw, o.buf, 0,
                           o.noop, FALSE)
            /\ IF o.noop THEN UNCHANGED hw ELSE RunRead(mode)
            /\ UNCHANGED <<config, calibration, lastValue, halted, wasReset, cal>>

\* readLine(sensor_values, readMode, white_line)
ReadLineCall(mode, white, bufIn, r, rOff) ==
  /\ Ready
  /\ \E o \in ReadCalibratedOutcomes(mode, bufIn, r, rOff) :
       IF o.fault THEN Fault
       ELSE IF ~OnLine(o.buf, white, numSensors)
         THEN /\ op' = Call("readLine", mode, white, bufIn, o.raw, o.buf,
                            LostLine(lastValue, numSensors), o.noop, FALSE)
              /\ IF o.noop THEN UNCHANGED hw ELSE RunRead(mode)
              /\ UNCHANGED <<config, calibration, lastValue, halted, wasReset, cal>>
       ELSE IF Sum(o.buf, white, numSensors) = 0
         THEN Fault
       ELSE /\ lastValue' = Position(o.buf, white, numSensors)
            /\ op' = Call("readLine", mode, white, bufIn, o.raw, o.buf, lastValue',
                           o.noop, TRUE)
            /\ IF o.noop THEN UNCHANGED hw ELSE RunRead(mode)
            /\ UNCHANGED <<config, calibration, halted, wasReset, cal>>

\* a reset that leaves the stored values alone
ResetArrayKeep(p, n, x) == p

\* one array after resetCalibration()
ResetArray(p, n, x) == IF p.alloc THEN NewArray(n, x) ELSE p

\* resetCalibration()
ResetCalibrationCall ==
  /\ Ready
  /\ calibratedMinimumOn' = ResetArray(calibratedMinimumOn, numSensors, maxValue)
  /\ calibratedMinimumOff' = ResetArray(calibratedMinimumOff, numSensors, maxValue)
  /\ calibratedMaximumOn' = ResetArray(calibratedMaximumOn, numSensors, 0)
  /\ calibratedMaximumOff' = ResetArray(calibratedMaximumOff, numSensors, 0)
  /\ wasReset' = {c \in {"on", "off"} :
                    IF c = "on"
                      THEN calibratedMinimumOn.alloc \/ calibratedMaximumOn.alloc
                      ELSE calibratedMinimumOff.alloc \/ calibratedMaximumOff.alloc}
  /\ op' = [NoCall(numSensors) EXCEPT !.name = "resetCalibration"]
  /\ UNCHANGED <<config, lastValue, halted, cal, hw>>


(***************************************************************************)
(* calibrate(readMode), one step per loop iteration of calibrateOnOrOff.   *)
(* cal.lo, cal.hi and cal.notAbove are not program state: they record the  *)
(* smallest and largest reading of the pass so far and how many readings   *)
(* of sensor 0 did not exceed its stored maximum (counted up to 2).        *)
(***************************************************************************)
Phase(mode, cond) ==
  [CalIdle(numSensors) EXCEPT !.stage = "alloc", !.mode = mode, !.cond = cond]

\* after one calibrateOnOrOff call returns: the second call of calibrate(), or its end
NextPhase ==
  IF cal.mode = QTR_EMITTERS_ON_AND_OFF /\ cal.cond = "on"
    THEN Phase(cal.mode, "off")
    ELSE CalIdle(numSensors)

StoredMaximum == IF cal.cond = "on" THEN calibratedMaximumOn ELSE calibratedMaximumOff
StoredMinimum == IF cal.cond = "on" THEN calibratedMinimumOn ELSE calibratedMinimumOff

\* the bounds of the condition being calibrated become mn and mx
Store(mn, mx) ==
  IF cal.cond = "on"
    THEN /\ calibratedMinimumOn' = mn
         /\ calibratedMaximumOn' = mx
         /\ UNCHANGED <<calibratedMinimumOff, calibratedMaximumOff>>
    ELSE /\ calibratedMinimumOff' = mn
         /\ calibratedMaximumOff' = mx
         /\ UNCHANGED <<calibratedMinimumOn, calibratedMaximumOn>>

\* calibrate(readMode): which calibrateOnOrOff call it makes first, if any
CalibrateCall(mode) ==
  /\ Ready
  /\ op' = [NoCall(numSensors) EXCEPT !.name = "calibrate", !.mode = mode]
  /\ cal' = IF mode = QTR_EMITTERS_ON_AND_OFF \/ mode = QTR_EMITTERS_ON
              THEN Phase(mode, "on")
            ELSE IF mode = QTR_EMITTERS_OFF
              THEN Phase(mode, "off")
            ELSE cal
  /\ UNCHANGED <<config, calibration, lastValue, halted, wasReset, hw>>

\* an array pointer after "allocate if necessary": ok is whether malloc succeeds
Allocate(p, ok, n, x) == IF p.alloc \/ ~ok THEN p ELSE NewArray(n, x)

\* calibrateOnOrOff: "Allocate the arrays if necessary"
CalibrateAlloc(okMax, okMin) ==
  LET mx == Allocate(StoredMaximum, okMax, numSensors, 0)
      mn == IF mx.alloc THEN Allocate(StoredMinimum, okMin, numSensors, maxValue)
            ELSE StoredMinimum
  IN /\ ~halted
     /\ cal.stage = "alloc"
     /\ Store(mn, mx)
     /\ cal' = IF mx.alloc /\ mn.alloc
                 THEN [cal EXCEPT !.stage = "loop", !.j = 0,
                                  !.lo = Row(numSensors, 65535),
                                  !.hi = Row(numSensors, 0)]
                 ELSE NextPhase
     /\ UNCHANGED <<config, lastValue, halted, wasReset, op, hw>>

\* max_sensor_values after folding in the readings of pass j
FoldMax(j, max_sensor_values, sensor_values) ==
  [i \in DOMAIN sensor_values |->
     IF j = 0 \/ max_sensor_values[i] < sensor_values[i]
       THEN sensor_values[i] ELSE max_sensor_values[i]]

\* a fold that forgets to start from the first reading of the pass
FoldMinNoFirst(j, min_sensor_values, sensor_values) ==
  [i \in DOMAIN sensor_values |->
     IF min_sensor_values[i] > sensor_values[i]
       THEN sensor_values[i] ELSE min_sensor_values[i]]

\* min_sensor_values after folding in the readings of pass j
FoldMin(j, min_sensor_values, sensor_values) ==
  [i \in DOMAIN sensor_values |->
     IF j = 0 \/ min_sensor_values[i] > sensor_values[i]
       THEN sensor_values[i] ELSE min_sensor_values[i]]

\* "unsigned int sensor_values[16]; unsigned int max_sensor_values[16];
\* unsigned int min_sensor_values[16];" of calibrateOnOrOff
ScratchLen == 16

\* calibrateOnOrOff: one iteration of "for(j=0;j<10;j++)"
CalibratePass(r) ==
  LET readMode == IF cal.cond = "on" THEN QTR_EMITTERS_ON ELSE QTR_EMITTERS_OFF
      sensor_values == Read(dimmable, readMode, numSensors, maxValue, r, r)
  IN /\ ~halted
     /\ cal.stage = "loop"
     /\ cal.j < NumPasses
     /\ \/ \* the pass indexes sensor_values, max_sensor_values and
           \* min_sensor_values up to _numSensors - 1, past their ends
           /\ numSensors > ScratchLen
           /\ Fault
        \/ /\ cal' = [cal EXCEPT
                  !.j = cal.j + 1,
                  !.max_sensor_values = FoldMax(cal.j, cal.max_sensor_values, sensor_values),
                  !.min_sensor_values = FoldMin(cal.j, cal.min_sensor_values, sensor_values),
                  !.lo = [i \in Indices(numSensors) |-> Min2(cal.lo[i], sensor_values[i])],
                  !.hi = [i \in Indices(numSensors) |-> Max2(cal.hi[i], sensor_values[i])],
                  !.notAbove = IF sensor_values[0] > StoredMaximum.v[0]
                                 THEN cal.notAbove ELSE Min2(cal.notAbove + 1, 2)]
            /\ RunRead(readMode)
            /\ UNCHANGED <<config, calibration, lastValue, halted, wasReset, op>>

\* the stored maximum after "record the min and max calibration values"
RecordMax(calibratedMaximum, min_sensor_values) ==
  [i \in DOMAIN calibratedMaximum |->
     IF min_sensor_values[i] > calibratedMaximum[i]
       THEN min_sensor_values[i] ELSE calibratedMaximum[i]]

\* the stored minimum after "record the min and max calibration values"
RecordMin(calibratedMinimum, max_sensor_values) ==
  [i \in DOMAIN calibratedMinimum |->
     IF max_sensor_values[i] < calibratedMinimum[i]
       THEN max_sensor_values[i] ELSE calibratedMinimum[i]]

\* calibrateOnOrOff: the loop has ended; record and return
CalibrateRecord ==
  LET mx == [StoredMaximum EXCEPT !.v = RecordMax(@, cal.min_sensor_values)]
      mn == [StoredMinimum EXCEPT !.v = RecordMin(@, cal.max_sensor_values)]
  IN /\ ~halted
     /\ cal.stage = "loop"
     /\ cal.j = NumPasses
     /\ Store(mn, mx)
     /\ cal' = NextPhase
     /\ wasReset' = wasReset \ {cal.cond}
     /\ op' = [op EXCEPT !.pass = [cond |-> cal.cond, notAbove |-> cal.notAbove,
                                   raised |-> mx.v[0] # StoredMaximum.v[0],
                                   lowered |-> mn.v[0] # StoredMinimum.v[0],
                                   afterReset |-> cal.cond \in wasReset]]
     /\ UNCHANGED <<config, lastValue, halted, hw>>

(***************************************************************************)
(* Spec: an RC sensor array of up to MaxSensors sensors with timeout       *)
(* SmallTimeout, under every sequence of calls.  During calibration every  *)
(* sensor sees the same surface, and malloc may fail.                      *)
(***************************************************************************)
\* the state init() leaves
SetupSensors(dim, n, timeout) ==
  /\ dimmable = dim
  /\ numSensors = n
  /\ maxValue = timeout
  /\ pinsLen = n
  /\ calibratedMinimumOn = NullArray(n)
  /\ calibratedMaximumOn = NullArray(n)
  /\ calibratedMinimumOff = NullArray(n)
  /\ calibratedMaximumOff = NullArray(n)
  /\ lastValue = 0
  /\ halted = FALSE
  /\ wasReset = {}
  /\ cal = CalIdle(n)
  /\ op = [NoCall(n) EXCEPT !.name = "init"]

\* the same with no emitter control line connected
Setup(dim, n, timeout) == SetupSensors(dim, n, timeout) /\ NoEmitterPins

Init == \E dim \in BOOLEAN : Setup(dim, MaxSensors, SmallTimeout)

Next ==
  \/ \E n \in 1 .. MaxSensors : InitCall(n, SmallTimeout)
  \/ /\ Ready
     /\ \E mode \in ReadModes, bufIn \in Buffers(numSensors),
           r \in Readings(numSensors, maxValue) :
          \E rOff \in SecondReadings(mode, numSensors, maxValue) :
            \/ ReadCall(mode, bufIn, r, rOff)
            \/ ReadCalibratedCall(mode, bufIn, r, rOff)
            \/ \E white \in BOOLEAN : ReadLineCall(mode, white, bufIn, r, rOff)
  \/ ResetCalibrationCall
  \/ \E mode \in ReadModes : CalibrateCall(mode)
  \/ \E okMax \in BOOLEAN, okMin \in BOOLEAN : CalibrateAlloc(okMax, okMin)
  \/ /\ cal.stage = "loop"
     /\ \E r \in UniformReadings(numSensors, maxValue) : CalibratePass(r)
  \/ CalibrateRecord
  \/ Return

Spec == Init /\ [][Next]_vars

(***************************************************************************)
(* SpecCal: calibration alone, every sensor reading independently: an      *)
(* array of two sensors with timeout 1, or of one sensor with timeout      *)
(* CalTimeout.  malloc succeeds.                                           *)
(***************************************************************************)
CalConfigs == {<<2, 1>>, <<1, CalTimeout>>}

InitCal == \E c \in CalConfigs : Setup(FALSE, c[1], c[2])

NextCal ==
  \/ InitCall(numSensors, maxValue)
  \/ ResetCalibrationCall
  \/ \E mode \in ReadModes : CalibrateCall(mode)
  \/ CalibrateAlloc(TRUE, TRUE)
  \/ /\ cal.stage = "loop"
     /\ \E r \in Readings(numSensors, maxValue) : CalibratePass(r)
  \/ CalibrateRecord
  \/ Return

SpecCal == InitCal /\ [][NextCal]_vars


(***************************************************************************)
(* SpecNorm: readCalibrated() on a calibrated one-sensor array with        *)
(* timeout NormTimeout, for stored bounds at and next to both ends of the  *)
(* range, in any order.                                                    *)
(***************************************************************************)
NormBounds == {0, 1, NormTimeout - 1, NormTimeout}

InitNorm ==
  /\ dimmable \in BOOLEAN
  /\ numSensors = 1
  /\ maxValue = NormTimeout
  /\ pinsLen = 1
  /\ \E a \in NormBounds, b \in NormBounds, c \in NormBounds, d \in NormBounds :
       /\ calibratedMinimumOn = NewArray(1, a)
       /\ calibratedMaximumOn = NewArray(1, b)
       /\ calibratedMinimumOff = NewArray(1, c)
       /\ calibratedMaximumOff = NewArray(1, d)
  /\ lastValue = 0
  /\ halted = FALSE
  /\ wasReset = {}
  /\ cal = CalIdle(1)
  /\ op = NoCall(1)
  /\ NoEmitterPins

NextNorm ==
  \/ /\ Ready
     /\ \E mode \in ReadModes, r \in Readings(1, maxValue) :
          \E rOff \in SecondReadings(mode, 1, maxValue) \cap {Row(1, 0), Row(1, maxValue)} :
            ReadCalibratedCall(mode, Row(1, 777), r, rOff)
  \/ Return

SpecNorm == InitNorm /\ [][NextNorm]_vars

(***************************************************************************)
(* SpecLine: readLine() on arrays of up to LineSensors sensors with        *)
(* timeout LineTimeout, calibrated over the whole range (minimum 0,        *)
(* maximum LineTimeout), over a line no wider than two sensors on an even  *)
(* background, with values at and next to the two thresholds.              *)
(***************************************************************************)
LineSamples ==
  {0, NoiseThreshold, NoiseThreshold + 1, OnLineThreshold, OnLineThreshold + 1, LineTimeout}

\* the values of n sensors of which those at k and k + 1 see the line and the
\* others all see the same background
LineValues(n) ==
  {[i \in Indices(n) |-> IF i = k THEN a ELSE IF i = k + 1 THEN b ELSE bg] :
     k \in Indices(n), a \in LineSamples, b \in LineSamples, bg \in LineSamples}

\* the readings that give values v, which a white line inverts
Surface(v, white) ==
  [i \in DOMAIN v |-> IF white THEN LineTimeout - v[i] ELSE v[i]]

InitLine ==
  /\ dimmable = FALSE
  /\ numSensors \in 1 .. LineSensors
  /\ maxValue = LineTimeout
  /\ pinsLen = numSensors
  /\ calibratedMinimumOn = NewArray(numSensors, 0)
  /\ calibratedMaximumOn = NewArray(numSensors, maxValue)
  /\ calibratedMinimumOff = NullArray(numSensors)
  /\ calibratedMaximumOff = NullArray(numSensors)
  /\ lastValue = 0
  /\ halted = FALSE
  /\ wasReset = {}
  /\ cal = CalIdle(numSensors)
  /\ op = NoCall(numSensors)
  /\ NoEmitterPins

NextLine ==
  \/ /\ Ready
     /\ \E white \in BOOLEAN, v \in LineValues(numSensors) :
          ReadLineCall(QTR_EMITTERS_ON, white, Row(numSensors, 777),
                       Surface(v, white), Row(numSensors, 0))
  \/ Return

SpecLine == InitLine /\ [][NextLine]_vars


(***************************************************************************)
(* Calibration claims, checked under SpecCal.                              *)
(***************************************************************************)
\* the stored bounds of condition c ("on" or "off")
MaximumOf(c) == IF c = "on" THEN calibratedMaximumOn ELSE calibratedMaximumOff
MinimumOf(c) == IF c = "on" THEN calibratedMinimumOn ELSE calibratedMinimumOff

\* the calibrateOnOrOff call for condition c has made its ten readings
PassComplete(c) == ~halted /\ cal.stage = "loop" /\ cal.j = NumPasses /\ cal.cond = c

\* C1: one calibration pass takes NumPasses readings per sensor; it raises a sensor's
\* stored maximum only when the smallest of them exceeds it, and then to that smallest
\* reading; it lowers the stored minimum only when the largest of them is under it,
\* and then to that largest reading.  When one reading of sensor 0 does not exceed
\* its stored maximum, that maximum is unchanged.
C1_CalibrationRule ==
  [][\A c \in {"on", "off"} : PassComplete(c) =>
       /\ \A i \in Indices(numSensors) :
            /\ MaximumOf(c)'.v[i] = IF cal.lo[i] > MaximumOf(c).v[i]
                                      THEN cal.lo[i] ELSE MaximumOf(c).v[i]
            /\ MinimumOf(c)'.v[i] = IF cal.hi[i] < MinimumOf(c).v[i]
                                      THEN cal.hi[i] ELSE MinimumOf(c).v[i]
       /\ cal.notAbove >= 1 => MaximumOf(c)'.v[0] = MaximumOf(c).v[0]]_vars

\* a pass has been recorded in which 9 of the 10 readings of sensor 0 exceeded its
\* stored maximum, one did not, and the maximum stayed
C1_Witness ==
  /\ op.name = "calibrate"
  /\ op.pass.cond # "none"
  /\ op.pass.notAbove = 1
  /\ ~op.pass.raised
  /\ MaximumOf(op.pass.cond).v[0] > 0

\* C2: bounds start at minimum = _maxValue and maximum = 0, when they are allocated
\* and after resetCalibration(); the first pass recorded on such bounds sets every
\* sensor's maximum to the smallest and its minimum to the largest of its readings.
C2_FreshBounds ==
  [][\A c \in {"on", "off"} :
       /\ (~halted /\ cal.stage = "alloc" /\ cal.cond = c) =>
            /\ (~MaximumOf(c).alloc /\ MaximumOf(c)'.alloc)
                  => MaximumOf(c)'.v = Row(numSensors, 0)
            /\ (~MinimumOf(c).alloc /\ MinimumOf(c)'.alloc)
                  => MinimumOf(c)'.v = Row(numSensors, maxValue)
       /\ op'.name = "resetCalibration" =>
            /\ MaximumOf(c)'.alloc = MaximumOf(c).alloc
            /\ MinimumOf(c)'.alloc = MinimumOf(c).alloc
            /\ MaximumOf(c).alloc => MaximumOf(c)'.v = Row(numSensors, 0)
            /\ MinimumOf(c).alloc => MinimumOf(c)'.v = Row(numSensors, maxValue)
       /\ (/\ PassComplete(c)
           /\ MaximumOf(c).v = Row(numSensors, 0)
           /\ MinimumOf(c).v = Row(numSensors, maxValue)) =>
            /\ MaximumOf(c)'.v = cal.lo
            /\ MinimumOf(c)'.v = cal.hi]_vars

\* the first pass after a resetCalibration() has been recorded, and it moved both
\* bounds of sensor 0
C2_Witness ==
  /\ op.name = "calibrate"
  /\ op.pass.afterReset
  /\ op.pass.raised
  /\ op.pass.lowered


(***************************************************************************)
(* Normalizer claims, checked under SpecNorm.                              *)
(***************************************************************************)
\* clamp(x, 0, 1000)
Clamp(x) == IF x < 0 THEN 0 ELSE IF x > 1000 THEN 1000 ELSE x

\* readCalibrated has just normalized the caller's buffer
Normalized == op.name = "readCalibrated" /\ ~op.noop

\* the effective bounds of sensor i in the call op describes
EffectiveMin(i) ==
  CalMin(op.mode, maxValue, calibratedMinimumOn.v, calibratedMinimumOff.v, i)
EffectiveMax(i) ==
  CalMax(op.mode, maxValue, calibratedMaximumOn.v, calibratedMaximumOff.v, i)

\* C3: for effective bounds calmin <= calmax the value readCalibrated writes is 0
\* when they are equal and otherwise clamp((raw - calmin) * 1000 / (calmax - calmin),
\* 0, 1000), so that every raw reading above calmax gives 1000.
C3_NormalizerFormula ==
  Normalized =>
    \A i \in Indices(numSensors) :
      EffectiveMin(i) <= EffectiveMax(i) =>
        op.bufOut[i] =
          IF EffectiveMax(i) = EffectiveMin(i) THEN 0
          ELSE Clamp(TruncDiv((op.raw[i] - EffectiveMin(i)) * 1000,
                              EffectiveMax(i) - EffectiveMin(i)))

\* C4: every value readCalibrated writes lies in 0 .. 1000, whatever the raw reading
\* and the stored bounds, inverted and equal bounds included; with equal effective
\* bounds the value is 0 (no division is made).
C4_CalibratedRange ==
  Normalized =>
    \A i \in Indices(numSensors) :
      /\ op.bufOut[i] \in 0 .. 1000
      /\ EffectiveMax(i) = EffectiveMin(i) => op.bufOut[i] = 0

\* readCalibrated has normalized a reading against inverted "on" bounds
C4_Witness ==
  /\ Normalized
  /\ op.mode = QTR_EMITTERS_ON
  /\ calibratedMaximumOn.v[0] < calibratedMinimumOn.v[0]
  /\ op.raw[0] > calibratedMaximumOn.v[0]
  /\ op.bufOut[0] \in 0 .. 1000

\* the bounds of sensor i the read mode of op calls for: those of the matching
\* condition in the single-condition modes, the combined ones otherwise
RequiredMin(i) ==
  IF op.mode \in {QTR_EMITTERS_ON, QTR_EMITTERS_ODD_EVEN} THEN calibratedMinimumOn.v[i]
  ELSE IF op.mode = QTR_EMITTERS_OFF THEN calibratedMinimumOff.v[i]
  ELSE IF calibratedMinimumOff.v[i] < calibratedMinimumOn.v[i] THEN maxValue
  ELSE calibratedMinimumOn.v[i] + maxValue - calibratedMinimumOff.v[i]

RequiredMax(i) ==
  IF op.mode \in {QTR_EMITTERS_ON, QTR_EMITTERS_ODD_EVEN} THEN calibratedMaximumOn.v[i]
  ELSE IF op.mode = QTR_EMITTERS_OFF THEN calibratedMaximumOff.v[i]
  ELSE IF calibratedMaximumOff.v[i] < calibratedMaximumOn.v[i] THEN maxValue
  ELSE calibratedMaximumOn.v[i] + maxValue - calibratedMaximumOff.v[i]

\* C5: readCalibrated normalizes against the combined bounds in the combined modes
\* (each within 0 .. _maxValue) and against the stored bounds of the matching
\* condition in the modes on, off and odd/even.
C5_EffectiveBounds ==
  (Normalized /\ op.mode # QTR_EMITTERS_MANUAL) =>
    \A i \in Indices(numSensors) :
      /\ RequiredMin(i) \in 0 .. maxValue
      /\ RequiredMax(i) \in 0 .. maxValue
      /\ op.bufOut[i] = Normalize(op.raw[i], RequiredMin(i), RequiredMax(i))

(***************************************************************************)
(* Line position claims, checked under SpecLine.                           *)
(***************************************************************************)
\* the calibrated value of sensor i after the call op describes, inverted for a
\* white line
Value(i) == IF op.white THEN 1000 - op.bufOut[i] ELSE op.bufOut[i]

\* some sensor sees the line
Contrast == \E i \in Indices(numSensors) : Value(i) > 200

\* the sum of f over the first k sensors whose value exceeds 50
RECURSIVE Total(_, _)
Total(f, k) ==
  IF k = 0 THEN 0
  ELSE Total(f, k - 1) + (IF Value(k - 1) > 50 THEN f[k - 1] ELSE 0)

C9_LostLine ==
  [][(op'.name = "readLine" /\ op.name = "none" /\ ~Contrast') =>
       op'.ret = IF 2 * lastValue < (numSensors - 1) * 1000
                   THEN 0 ELSE (numSensors - 1) * 1000]_vars

\* four sensors, last position 2500: readLine has lost the line and returned 3000
C9_Witness ==
  /\ numSensors = 4
  /\ op.name = "readLine"
  /\ ~Contrast
  /\ lastValue = 2500
  /\ op.ret = 3000


(***************************************************************************)
(* Claims on the calls that must do nothing, checked under Spec.           *)
(***************************************************************************)
\* the bounds a read mode needs have been allocated
OnInitialized == calibratedMinimumOn.alloc /\ calibratedMaximumOn.alloc
OffInitialized == calibratedMinimumOff.alloc /\ calibratedMaximumOff.alloc

BoundsInitialized(mode) ==
  /\ mode \in {QTR_EMITTERS_ON, QTR_EMITTERS_ON_AND_OFF, QTR_EMITTERS_ODD_EVEN,
               QTR_EMITTERS_ODD_EVEN_AND_OFF} => OnInitialized
  /\ mode \in {QTR_EMITTERS_OFF, QTR_EMITTERS_ON_AND_OFF,
               QTR_EMITTERS_ODD_EVEN_AND_OFF} => OffInitialized

\* C6: in every read mode other than manual, readCalibrated leaves the caller's
\* buffer as it was when the bounds the mode needs are not initialized; and init()
\* leaves all four bounds arrays unallocated.
C6_UncalibratedNoOp ==
  /\ op.name = "init" =>
       /\ ~calibratedMinimumOn.alloc /\ ~calibratedMaximumOn.alloc
       /\ ~calibratedMinimumOff.alloc /\ ~calibratedMaximumOff.alloc
  /\ (/\ op.name = "readCalibrated"
      /\ op.mode # QTR_EMITTERS_MANUAL
      /\ ~BoundsInitialized(op.mode)) => op.bufOut = op.bufIn

\* C7: calibrate, readCalibrated and readLine called with the manual read mode read
\* no sensor, leave the caller's buffer as it was, and create or change no
\* calibration bound.
C7_ManualRejected ==
  [][(/\ op.name = "none"
      /\ op'.name \in {"calibrate", "readCalibrated", "readLine"}
      /\ op'.mode = QTR_EMITTERS_MANUAL) =>
       /\ op'.bufOut = op'.bufIn
       /\ op'.raw = op'.bufIn
       /\ cal'.stage = "idle"
       /\ UNCHANGED calibration]_vars

\* C10: _lastValue is 0 after init(); it changes only in a readLine call that has
\* normalized the buffer and sees a value above 200, and then becomes the value
\* returned; every other call, a readLine call that skips normalization for want
\* of calibration included, leaves it as it was.
C10_LastValueFrame ==
  [][/\ op'.name = "init" => lastValue' = 0
     /\ (op'.name = "readLine" /\ op.name = "none" /\ ~op'.noop /\ Contrast') =>
          lastValue' = op'.ret
     /\ (/\ op'.name # "init"
         /\ ~(op'.name = "readLine" /\ op.name = "none" /\ ~op'.noop /\ Contrast')) =>
          lastValue' = lastValue]_vars

(***************************************************************************)
(* QTRSensorsRC::readPrivate, one poll of its loop at a time.  The elapsed *)
(* time micros() - startTime is read twice per round: in the condition of  *)
(* the while loop, and again into the 16-bit "unsigned int time".  Rounds  *)
(* in which no line reads LOW change nothing and are skipped: a poll may   *)
(* happen at any later elapsed time.                                       *)
(***************************************************************************)
\* sensors of the pulse-discharge array
RCSensors == 2

\* the short timeout of the pulse-discharge array
RCTimeout == 3

\* the largest unsigned int, which init() accepts as timeout
MaxTimeout == 65535

\* microseconds that can pass between the two readings of micros() of one round
\* (micros() counts in steps of 4 on a 16 MHz board)
Gaps == {0, 1, 4}

\* elapsed times at which the condition of the loop is evaluated
CondTimes == (0 .. RCTimeout) \cup {maxValue - 1}

\* "for (i = start; i < _numSensors; i += step)" reaches sensor i
Targeted(i, step, start) == i >= start /\ (i - start) % step = 0

\* the first poll of sensor i that read LOW has not happened
NoPoll == -1

\* readPrivate(sensor_values, step, start) up to "startTime = micros()".  critical
\* is the set of the parts of the call ("switch": the lines are made inputs, "poll":
\* a round of the loop) that ran with interrupts masked, and irqOff tells whether
\* interrupts are masked now: readPrivate calls neither noInterrupts() nor
\* interrupts(), so they stay as they are
ReadPrivateStart(sensor_values, step, start) ==
  /\ acq.stage = "idle"
  /\ pinsLen >= numSensors
  /\ acq' = [stage |-> "poll", step |-> step, start |-> start, in |-> sensor_values,
             sensor_values |-> [i \in Indices(numSensors) |->
                                  IF Targeted(i, step, start) THEN maxValue
                                  ELSE sensor_values[i]],
             elapsed |-> 0,
             firstLow |-> [i \in Indices(numSensors) |-> NoPoll],
             polled |-> FALSE,
             critical |-> {},
             irqOff |-> FALSE]
  /\ UNCHANGED <<config, calibration, lastValue, halted, wasReset, cal, op, pin, log>>

\* one round of the loop: the condition holds at elapsed time c, "time" is read
\* gap microseconds later, and the lines in low read LOW
Poll(c, gap, low) ==
  /\ acq.stage = "poll"
  /\ c >= acq.elapsed
  /\ c < maxValue
  /\ LET time == U16(c + gap)
     IN acq' = [acq EXCEPT
                  !.elapsed = c + gap,
                  !.polled = TRUE,
                  !.sensor_values =
                     [i \in Indices(numSensors) |->
                        IF Targeted(i, acq.step, acq.start) /\ i \in low /\ time < @[i]
                          THEN time ELSE @[i]],
                  !.firstLow =
                     [i \in Indices(numSensors) |->
                        IF Targeted(i, acq.step, acq.start) /\ i \in low /\ @[i] = NoPoll
                          THEN c + gap ELSE @[i]]]
  /\ UNCHANGED <<config, calibration, lastValue, halted, wasReset, cal, op, pin, log>>

\* the condition of the loop fails, at some elapsed time that is not below the
\* timeout: readPrivate returns
ReadPrivateEnd ==
  /\ acq.stage = "poll"
  /\ acq' = [acq EXCEPT !.stage = "done"]
  /\ UNCHANGED <<config, calibration, lastValue, halted, wasReset, cal, op, pin, log>>

\* the caller takes the values
ReadPrivateReturn ==
  /\ acq.stage = "done"
  /\ acq' = AcqIdle
  /\ UNCHANGED <<config, calibration, lastValue, halted, wasReset, cal, op, pin, log>>

\* timeouts given to init()
RCTimeouts == {RCTimeout, MaxTimeout}

InitRC == \E timeout \in RCTimeouts : Setup(FALSE, RCSensors, timeout)

NextRC ==
  \/ /\ acq.stage = "idle"
     /\ \E b \in Buffers(numSensors), step \in {1, 2}, start \in {0, 1} : ReadPrivateStart(b, step, start)
  \/ /\ acq.stage = "poll"
     /\ \E c \in CondTimes, gap \in Gaps, low \in SUBSET Indices(numSensors) :
          Poll(c, gap, low)
  \/ ReadPrivateEnd
  \/ ReadPrivateReturn

SpecRC == InitRC /\ [][NextRC]_vars

\* readPrivate has returned
Captured == acq.stage = "done"

\* the elapsed time of the first poll at which line i read LOW, if that was before
\* the timeout, and the timeout otherwise
FirstDischarge(i) ==
  IF acq.firstLow[i] # NoPoll /\ acq.firstLow[i] < maxValue
    THEN acq.firstLow[i] ELSE maxValue

\* C11: when a pulse-discharge read returns, every targeted sensor holds the
\* elapsed time of the first poll at which its line read discharged, or exactly
\* the timeout if no poll read it discharged before the timeout; the value lies in
\* [0, timeout]; every sensor not targeted holds what the buffer held before.
C11_FirstDischarge ==
  Captured =>
    \A i \in Indices(numSensors) :
      IF Targeted(i, acq.step, acq.start)
        THEN /\ acq.sensor_values[i] = FirstDischarge(i)
             /\ acq.sensor_values[i] \in 0 .. maxValue
        ELSE acq.sensor_values[i] = acq.in[i]

\* C11 for the timeout of RCTimeout microseconds only
C11_ShortTimeout == maxValue = RCTimeout => C11_FirstDischarge

(***************************************************************************)
(* Reads of one sensor with an emitter control pin (two on the dimmable    *)
(* class), for timeouts up to the largest init() accepts.                  *)
(***************************************************************************)
\* the short timeout of these reads
WideTimeout == 4

\* the largest timeout for which 2 * timeout fits 16 bits
MaxSafeTimeout == 32767

WideTimeouts == {WideTimeout, MaxSafeTimeout, MaxSafeTimeout + 1, MaxTimeout}

\* a sensor that discharges at once, halfway, or not before the timeout
WideReadings(mv) == {Row(1, x) : x \in {0, mv \div 2, mv}}

InitWide ==
  \E dim \in BOOLEAN :
    /\ SetupSensors(dim, 1, WideTimeout)
    /\ IF dim THEN EmitterPins(4, 5) ELSE EmitterPins(4, QTR_NO_EMITTER_PIN)

NextWide ==
  \/ /\ Ready
     /\ \E timeout \in WideTimeouts : InitCall(1, timeout)
  \/ /\ Ready
     /\ \E mode \in ReadModes, r \in WideReadings(maxValue), rOff \in WideReadings(maxValue) :
          ReadCall(mode, Row(1, 777), r, rOff)
  \/ Return

SpecWide == InitWide /\ [][NextWide]_vars

\* a read in one of the two modes that subtract a reading taken with the emitters
\* off has returned
CombinedRead ==
  /\ op.name = "read"
  /\ op.mode \in {QTR_EMITTERS_ON_AND_OFF, QTR_EMITTERS_ODD_EVEN_AND_OFF}

\* the readPrivate() calls of the call, in order
ReadEvents == SelectSeq(log, LAMBDA ev : ev.e = "readPrivate")

\* on + maxReading - off
OnPlusMaxMinusOff(on, off) == [i \in Indices(numSensors) |-> on[i] + maxValue - off[i]]

\* the read switched the emitters on, read, switched them off, and read again, and
\* left on + maxReading - off in the buffer
OnReadOffRead ==
  /\ Len(op.passes) = 2
  /\ op.bufOut = OnPlusMaxMinusOff(op.passes[1], op.passes[2])
  /\ Len(ReadEvents) >= 2
  /\ \A k \in 1 .. Len(ReadEvents) :
       IF k < Len(ReadEvents)
         THEN ReadEvents[k].lit # {}
         ELSE ReadEvents[k].v = "off" /\ ReadEvents[k].lit = {}

\* C12: a read in OnAndOff or OddEvenAndOff mode returns on + maxReading - off for
\* every sensor, on being read with the emitters on and off being a second reading
\* of all sensors taken after the emitters were switched off.
C12_OnAndOff == CombinedRead => OnReadOffRead

\* C12 for the timeouts up to 32767 and the modes each class implements
C12_Supported ==
  (CombinedRead /\ maxValue <= MaxSafeTimeout
     /\ (dimmable \/ op.mode = QTR_EMITTERS_ON_AND_OFF)) => OnReadOffRead

\* C13: the stored timeout never exceeds 32767, whatever timeout init() is given,
\* and so a read in OnAndOff or OddEvenAndOff mode never computes an
\* on + maxReading - off that does not fit 16 bits.
C13_TimeoutLimit ==
  /\ maxValue <= MaxSafeTimeout
  /\ (CombinedRead /\ Len(op.passes) = 2) =>
       \A i \in Indices(numSensors) :
         OnPlusMaxMinusOff(op.passes[1], op.passes[2])[i] < 65536

(***************************************************************************)
(* The emitter control calls and read() on one sensor, for a plain array   *)
(* with one emitter pin and dimmable arrays with one and with two.         *)
(***************************************************************************)
\* the timeout of this array
EmitTimeout == 1

\* <<dimmable, emitterPin, evenEmitterPin>>
EmitterConfigs ==
  {<<FALSE, 4, QTR_NO_EMITTER_PIN>>, <<TRUE, 4, QTR_NO_EMITTER_PIN>>, <<TRUE, 4, 5>>}

\* micros() when a call starts: long after reset, and shortly before its lower 16
\* bits wrap
StartTimes == {0, 65000}

\* dimming levels the caller asks for
Levels == {0, 1, MaxDimmingLevel, MaxDimmingLevel + 1}

Banks == {QTR_BANK_ODD, QTR_BANK_EVEN}

InitEmit ==
  \E c \in EmitterConfigs : SetupSensors(c[1], 1, EmitTimeout) /\ EmitterPins(c[2], c[3])

NextEmit ==
  \/ /\ Ready
     /\ \E t \in StartTimes :
          \/ EmittersOffCall(t)
          \/ EmittersOnCall(t)
          \/ \E bank \in Banks :
               \/ EmitterBankSelectCall(bank, t)
               \/ \E wait \in BOOLEAN :
                    \/ BankEmittersOffCall(bank, wait, t)
                    \/ BankEmittersOnCall(bank, wait, t)
  \/ \E level \in Levels : SetDimmingLevelCall(level)
  \/ /\ Ready
     /\ \E mode \in ReadModes, r \in Readings(1, maxValue), rOff \in Readings(1, maxValue) :
          ReadCall(mode, Row(1, 777), r, rOff)
  \/ Return

SpecEmit == InitEmit /\ [][NextEmit]_vars

\* the events of the log that touch an emitter control line
LineEvents ==
  SelectSeq(log, LAMBDA ev : ev.e \in {"pinMode", "digitalWrite", "pulses"})

\* C14: a read in Manual mode changes neither the direction nor the level of any
\* emitter control line: the lines are after the read as they were before it, on
\* the plain and on the dimmable (one or two banks) arrays.
C14_ManualKeepsEmitters ==
  [][(op'.name = "read" /\ op'.mode = QTR_EMITTERS_MANUAL) =>
       (pin' = pin /\ LineEvents' = <<>>)]_vars

\* a Manual read has returned with an emitter line still driven active
C14_Witness ==
  /\ op.name = "read"
  /\ op.mode = QTR_EMITTERS_MANUAL
  /\ Lit(pin) # {}

\* emitterBankSelect(bank) has returned on an array with two emitter control pins
BankSelected ==
  /\ op.name = "emitterBankSelect"
  /\ emitterPin # QTR_NO_EMITTER_PIN
  /\ evenEmitterPin # QTR_NO_EMITTER_PIN

\* the place in log l of the first digitalWrite(p, level), 0 if there is none
FirstWriteIn(l, p, level) ==
  LET W == {k \in 1 .. Len(l) :
              l[k].e = "digitalWrite" /\ l[k].pin = p /\ l[k].v = level}
  IN IF W = {} THEN 0 ELSE CHOOSE k \in W : \A j \in W : k <= j

FirstWrite(p, level) == FirstWriteIn(log, p, level)

\* the time at which the call returned
ReturnTime == log[Len(log)].at

\* C16: on an array with two emitter banks, selecting a bank turns the other bank
\* off without waiting, then turns the selected bank on, and returns neither before
\* 1200 microseconds have passed since the other bank was turned off nor before the
\* 300 microseconds of the selected bank's turn-on wait have passed; on return the
\* selected line is active and the other is not.
C16_BankSelect ==
  BankSelected =>
    LET onPin == BankPin(op.bank)
        offPin == IF op.bank = QTR_BANK_ODD THEN evenEmitterPin ELSE emitterPin
        off == FirstWrite(offPin, "LOW")
        on == FirstWrite(onPin, "HIGH")
    IN /\ off > 0
       /\ on > off
       /\ log[on].at = log[off].at
       /\ ReturnTime - log[off].at >= DimmableOffSettle
       /\ ReturnTime - log[on].at >= DimmableOnSettle
       /\ Lit(pin) = {onPin}

\* a bank was selected while the other was lit, at a time shortly before the lower
\* 16 bits of micros() wrap
C16_Witness ==
  /\ BankSelected
  /\ op.bank = QTR_BANK_EVEN
  /\ dimmingLevel = MaxDimmingLevel
  /\ log[1].at = 65000
  /\ ReturnTime > 65536
  /\ Lit(pin) = {evenEmitterPin}

\* the lines a call that switches emitters is about: those of its bank, or of the
\* whole array when it names no bank
LinesOf(bank) ==
  (IF bank = "" THEN {emitterPin, evenEmitterPin} ELSE {BankPin(bank)})
    \ {QTR_NO_EMITTER_PIN}

\* C19: turning emitters off drives a line inactive only if it is not inactive
\* already, and waits for the lines to settle only if a line changed and the
\* caller asked to wait: a call that finds its lines off returns at once, a call
\* with wait = false never waits, and a call for a bank without a pin does nothing.
C19_OffOnlyOnChange ==
  [][(op.name = "none" /\ op'.name = "emittersOff") =>
       LET changed == LinesOf(op'.bank) \cap Lit(pin)
       IN /\ \A k \in 1 .. Len(log') :
               /\ log'[k].e = "digitalWrite" => log'[k].pin \in changed
               /\ log'[k].e = "delay" => (changed # {} /\ op'.wait)
          /\ LinesOf(op'.bank) = {} => (pin' = pin /\ Len(log') = 1)]_vars

\* C19 without the condition on the state of the lines before the call
C19_Unconditional ==
  [][(op.name = "none" /\ op'.name = "emittersOff") =>
       /\ \A k \in 1 .. Len(log') : log'[k].e = "delay" => op'.wait
       /\ LinesOf(op'.bank) = {} => (pin' = pin /\ Len(log') = 1)
       /\ LinesOf(op'.bank) \cap Lit(pin') = {}]_vars

\* C20: turning the emitters on while the dimmable line is already on first turns
\* the line off for 1200 microseconds, then drives it active and applies the
\* dimming level, so that a level set between two turn-on calls takes effect on
\* the second.
C20_OffPhaseFirst ==
  [][(op.name = "none" /\ op'.name = "emittersOn" /\ dimmable) =>
       \A p \in LinesOf(IF op'.bank = "" THEN QTR_BANK_ODD ELSE op'.bank) \cap Lit(pin) :
         LET lo == FirstWriteIn(log', p, "LOW")
             hi == FirstWriteIn(log', p, "HIGH")
         IN /\ lo > 0
            /\ hi > lo
            /\ log'[hi].at - log'[lo].at >= DimmableOffSettle
            /\ \E k \in hi .. Len(log') :
                 log'[k].e = "pulses" /\ log'[k].pin = p /\ log'[k].n = dimmingLevel]_vars

\* C20 without the off phase: the line is driven active and the pulses of the
\* dimming level are sent
C20_PulsesOnly ==
  [][(op.name = "none" /\ op'.name = "emittersOn" /\ dimmable) =>
       \A p \in LinesOf(IF op'.bank = "" THEN QTR_BANK_ODD ELSE op'.bank) :
         LET hi == FirstWriteIn(log', p, "HIGH")
         IN /\ hi > 0
            /\ p \in Lit(pin')
            /\ \E k \in hi .. Len(log') :
                 log'[k].e = "pulses" /\ log'[k].pin = p /\ log'[k].n = dimmingLevel]_vars

(***************************************************************************)
(* The calls that read, on one sensor with emitter control pins, from      *)
(* construction on: read, readCalibrated, readLine and calibrate in every  *)
(* mode, and nothing else.                                                 *)
(***************************************************************************)
NextDark ==
  \/ /\ Ready
     /\ \E mode \in ReadModes, r \in Readings(1, maxValue) :
          \E rOff \in SecondReadings(mode, 1, maxValue) :
            \/ ReadCall(mode, Row(1, 777), r, rOff)
            \/ ReadCalibratedCall(mode, Row(1, 777), r, rOff)
            \/ \E white \in BOOLEAN : ReadLineCall(mode, white, Row(1, 777), r, rOff)
  \/ \E mode \in ReadModes : CalibrateCall(mode)
  \/ \E okMax \in BOOLEAN, okMin \in BOOLEAN : CalibrateAlloc(okMax, okMin)
  \/ /\ cal.stage = "loop"
     /\ \E r \in Readings(1, maxValue) : CalibratePass(r)
  \/ CalibrateRecord
  \/ Return

SpecDark == InitEmit /\ [][NextDark]_vars

\* a call that reads, in a mode other than Manual, is running between two of its
\* reads or has returned
ReadingCall ==
  /\ op.name \in {"read", "readCalibrated", "readLine", "calibrate"}
  /\ op.mode # QTR_EMITTERS_MANUAL

\* C15: with an emitter control pin configured, after any sequence of read,
\* readCalibrated, readLine and calibrate calls in modes other than Manual no
\* emitter control line is driven active when the call returns.
C15_EmittersOffOnReturn == ReadingCall => Lit(pin) = {}

\* readLine in OddEven mode on the array with two banks has returned: the odd bank
\* was lit during the first pass and the even bank during the second
C15_Witness ==
  /\ op.name = "readLine"
  /\ op.mode = QTR_EMITTERS_ODD_EVEN
  /\ Len(ReadEvents) = 2
  /\ ReadEvents[1].lit = {emitterPin}
  /\ ReadEvents[2].lit = {evenEmitterPin}
  /\ Lit(pin) = {}

(***************************************************************************)
(* An array of one sensor whose init() could not allocate _pins: reads and *)
(* calibration with _pins null.                                            *)
(***************************************************************************)
\* what an uninitialized array on the stack can hold
StackValues == {0, 1, 777, 65535}

Stack == {Row(1, x) : x \in StackValues}

InitNull ==
  /\ dimmable \in BOOLEAN
  /\ numSensors = 1
  /\ maxValue = EmitTimeout
  /\ pinsLen = 0
  /\ calibratedMinimumOn = NullArray(1)
  /\ calibratedMaximumOn = NullArray(1)
  /\ calibratedMinimumOff = NullArray(1)
  /\ calibratedMaximumOff = NullArray(1)
  /\ lastValue = 0
  /\ halted = FALSE
  /\ wasReset = {}
  /\ cal = CalIdle(1)
  /\ op = [NoCall(1) EXCEPT !.name = "init"]
  /\ NoEmitterPins

NextNull ==
  \/ InitNoMemoryCall(1, EmitTimeout)
  \/ /\ Ready
     /\ \E mode \in ReadModes, bufIn \in Buffers(1), rOff \in Stack :
          ReadCall(mode, bufIn, bufIn, rOff)
  \/ \E mode \in ReadModes : CalibrateCall(mode)
  \/ \E okMax \in BOOLEAN, okMin \in BOOLEAN : CalibrateAlloc(okMax, okMin)
  \/ /\ cal.stage = "loop"
     /\ \E r \in Stack : CalibratePass(r)
  \/ CalibrateRecord
  \/ Return

SpecNull == InitNull /\ [][NextNull]_vars

\* C17: with the pin array missing, read in every mode, OnAndOff included, leaves
\* the caller's buffer unchanged, and calibrate leaves the stored calibration
\* bounds unchanged.
C17_NoPinsNoOp ==
  [][pinsLen = 0 =>
       /\ op'.name = "read" => op'.bufOut = op'.bufIn
       /\ op'.name = "calibrate" => UNCHANGED calibration]_vars

\* C17 for the reads that make one pass
C17_SinglePass ==
  [][(pinsLen = 0 /\ op'.name = "read" /\ Len(op'.passes) = 1) =>
       op'.bufOut = op'.bufIn]_vars

(***************************************************************************)
(* QTRSensorsAnalog::readPrivate on two sensors, one round of conversions  *)
(* at a time.  In a round every targeted sensor converts to the same       *)
(* sample.                                                                 *)
(***************************************************************************)
\* the recommended number of samples per sensor
SampleCount == 4

\* the largest number of samples per sensor the configuration promises
MaxSamples == 64

\* the largest unsigned char, which init() accepts as numSamplesPerSensor
MaxCount == 255

\* the maximum returned by the A/D conversion
AnalogMax == 1023

\* the numbers of samples per sensor given to init()
SampleCounts == {0, 1, SampleCount, MaxSamples, MaxSamples + 1, MaxCount}

\* the conversion results: black and white
AnalogSamples == {0, AnalogMax}

\* what a division by zero can leave in an unsigned int
DivisionByZero == {0, 65535}

\* "(sensor_values[i] + (_numSamplesPerSensor >> 1)) / _numSamplesPerSensor"
Average(sum, count) == U16(sum + (count \div 2)) \div count

\* readPrivate(sensor_values, step, start) up to the end of "reset the values"
AnalogStart(sensor_values, step, start) ==
  /\ acq.stage = "idle"
  /\ pinsLen >= numSensors
  /\ acq' = [stage |-> "sample", step |-> step, start |-> start, in |-> sensor_values,
             sensor_values |-> [i \in Indices(numSensors) |->
                                  IF Targeted(i, step, start) THEN 0
                                  ELSE sensor_values[i]],
             j |-> 0,
             sum |-> 0]
  /\ UNCHANGED <<config, calibration, lastValue, halted, wasReset, cal, op, pin, log>>

\* one round of "for (j = 0; j < _numSamplesPerSensor; j++)": every targeted sensor
\* converts to x; acq.sum is the sum of the samples of a sensor so far
AnalogSample(x) ==
  /\ acq.stage = "sample"
  /\ acq.j < numSamplesPerSensor
  /\ acq' = [acq EXCEPT
               !.j = @ + 1,
               !.sum = @ + x,
               !.sensor_values =
                  [i \in Indices(numSensors) |->
                     IF Targeted(i, acq.step, acq.start) THEN U16(@[i] + x) ELSE @[i]]]
  /\ UNCHANGED <<config, calibration, lastValue, halted, wasReset, cal, op, pin, log>>

\* "get the rounded average of the readings for each sensor"; with no samples
\* configured the division is by zero, which leaves q or stops the program
AnalogEnd(q) ==
  /\ acq.stage = "sample"
  /\ acq.j = numSamplesPerSensor
  /\ IF numSamplesPerSensor = 0
       THEN \/ /\ acq' = [acq EXCEPT
                            !.stage = "done",
                            !.sensor_values =
                               [i \in Indices(numSensors) |->
                                  IF Targeted(i, acq.step, acq.start) THEN q ELSE @[i]]]
               /\ UNCHANGED <<config, calibration, lastValue, halted, wasReset, cal, op,
                              pin, log>>
            \/ /\ halted' = TRUE
               /\ acq' = [acq EXCEPT !.stage = "fault"]
               /\ UNCHANGED <<config, calibration, lastValue, wasReset, cal, op, pin, log>>
       ELSE /\ acq' = [acq EXCEPT
                         !.stage = "done",
                         !.sensor_values =
                            [i \in Indices(numSensors) |->
                               IF Targeted(i, acq.step, acq.start)
                                 THEN Average(@[i], numSamplesPerSensor) ELSE @[i]]]
            /\ UNCHANGED <<config, calibration, lastValue, halted, wasReset, cal, op,
                           pin, log>>

\* after QTRSensorsAnalog::init(pins, 2, count, QTR_NO_EMITTER_PIN)
InitAnalog ==
  /\ SetupSensors(FALSE, 2, AnalogMax)
  /\ emitterPin = QTR_NO_EMITTER_PIN
  /\ evenEmitterPin = QTR_NO_EMITTER_PIN
  /\ dimmingLevel = 0
  /\ numSamplesPerSensor \in SampleCounts
  /\ pin = LinesAtReset
  /\ log = <<>>
  /\ acq = AcqIdle

NextAnalog ==
  \/ /\ acq.stage = "idle"
     /\ \E b \in Buffers(numSensors), step \in {1, 2}, start \in {0, 1} :
          AnalogStart(b, step, start)
  \/ \E x \in AnalogSamples : AnalogSample(x)
  \/ \E q \in DivisionByZero : AnalogEnd(q)
  \/ ReadPrivateReturn

SpecAnalog == InitAnalog /\ [][NextAnalog]_vars

\* the rounded average of the samples of a sensor, in integers
RoundedAverage == (acq.sum + (numSamplesPerSensor \div 2)) \div numSamplesPerSensor

\* every targeted sensor holds the rounded average of its samples
Averaged ==
  \A i \in Indices(numSensors) :
    Targeted(i, acq.step, acq.start) =>
      /\ acq.sensor_values[i] = RoundedAverage
      /\ acq.sensor_values[i] \in 0 .. AnalogMax

\* C18: for every number of samples per sensor that can be configured, an analog
\* read returns for each targeted sensor (sum of its samples + half the count)
\* divided by the count, a value in [0, 1023]; the count never exceeds 64, so the
\* 16-bit sum never overflows.
C18_RoundedAverage ==
  /\ acq.stage # "fault"
  /\ acq.stage = "done" =>
       /\ numSamplesPerSensor \in 1 .. MaxSamples
       /\ acq.sum < 65536
       /\ Averaged

\* C18 for 1 to 64 samples per sensor
C18_UpTo64 ==
  (acq.stage = "done" /\ numSamplesPerSensor \in 1 .. MaxSamples) =>
     (Averaged /\ acq.sum < 65536)

\* a call that turns emitters on has returned, and the line it is about is p
TurnedOn(p) ==
  /\ op.name = "emittersOn"
  /\ p \in LinesOf(IF op.bank = "" THEN QTR_BANK_ODD ELSE op.bank)

\* the time between the first digitalWrite(p, HIGH) of the call and its return
LitFor(p) == ReturnTime - log[FirstWrite(p, "HIGH")].at

\* the call waited for nothing
NoDelay == \A k \in 1 .. Len(log) : log[k].e # "delay"

\* C21: turning emitters on with wait true, on a configured control line, does
\* not return before 300 microseconds have passed since the line was first
\* driven active, the time of the dimming toggles included; with wait false it
\* returns without waiting.
C21_TurnOnWait ==
  \A p \in Lines :
    TurnedOn(p) =>
      /\ FirstWrite(p, "HIGH") > 0
      /\ IF op.wait THEN LitFor(p) >= DimmableOnSettle ELSE NoDelay

\* C21 as the code has it: the 300 microseconds, wait and the dimming toggles belong
\* to the dimmable arrays; on a plain array turning the emitters on always waits
\* the 200 microseconds of its settle time after driving the line active.
C21_TurnOnWaitByKind ==
  \A p \in Lines :
    TurnedOn(p) =>
      /\ FirstWrite(p, "HIGH") > 0
      /\ IF ~dimmable THEN LitFor(p) >= PlainSettle
         ELSE IF op.wait THEN LitFor(p) >= DimmableOnSettle
         ELSE NoDelay

\* emittersOn(bank, true) has returned on a dimmable array at the highest dimming
\* level, having started shortly before the lower 16 bits of micros() wrap
C21_Witness ==
  /\ dimmable
  /\ TurnedOn(evenEmitterPin)
  /\ op.wait
  /\ dimmingLevel = MaxDimmingLevel
  /\ log[1].at = 65000
  /\ LitFor(evenEmitterPin) >= DimmableOnSettle

\* the places in the log of the events e
Places(e) == {k \in 1 .. Len(log) : log[k].e = e}

\* interrupts are masked when the call returns: its last noInterrupts() comes
\* after its last interrupts()
MaskedOnReturn ==
  \E k \in Places("noInterrupts") : \A j \in Places("interrupts") : j < k

\* C22: turning on a dimmable emitter line with dimming level d drives the line
\* active and then makes exactly d inactive-then-active toggles, all inside one
\* section with interrupts masked; when the call returns the line is active and
\* interrupts are unmasked, for every d, 0 included; the stored dimming level never
\* exceeds 31 whatever value was set.
C22_DimmingPulses ==
  /\ dimmingLevel <= MaxDimmingLevel
  /\ \A p \in Lines :
       (dimmable /\ TurnedOn(p)) =>
         /\ Cardinality(Places("noInterrupts")) = 1
         /\ Cardinality(Places("interrupts")) = 1
         /\ \A k \in Places("pulses") :
              /\ log[k].pin = p
              /\ log[k].n = dimmingLevel
              /\ FirstWrite(p, "HIGH") < k
              /\ \A a \in Places("noInterrupts"), b \in Places("interrupts") :
                   a < k /\ k < b
         /\ Cardinality(Places("pulses")) = 1
         /\ ~MaskedOnReturn
         /\ p \in Lit(pin)

\* the even bank was turned on at the highest dimming level
C22_Witness ==
  /\ dimmable
  /\ TurnedOn(evenEmitterPin)
  /\ dimmingLevel = MaxDimmingLevel
  /\ \E k \in Places("pulses") : log[k].n = MaxDimmingLevel
  /\ evenEmitterPin \in Lit(pin)

\* C23: during a pulse-discharge read interrupts are masked while the targeted
\* lines are switched to input and during each round of the polling loop, and are
\* unmasked between the rounds and when the read returns.
C23_MaskedSections ==
  acq.stage \in {"poll", "done"} =>
    /\ "switch" \in acq.critical
    /\ acq.polled => "poll" \in acq.critical
    /\ ~acq.irqOff

\* C23 as far as it asks for interrupts to be unmasked
C23_NeverLeftMasked == acq.stage \in {"poll", "done"} => ~acq.irqOff


(***************************************************************************)
(* The range of readLine, checked under SpecLine.                          *)
(***************************************************************************)
\* the calibrated values of the call op describes lie in [0, 1000]
InCalibratedRange ==
  \A i \in Indices(numSensors) : op.bufOut[i] \in 0 .. CalibratedMax

\* C24: every value readLine returns lies in [0, (_numSensors - 1) * 1000] when the
\* calibrated values lie in [0, 1000], for a black line and for a white line; the
\* division of the weighted average is only made with a positive denominator, a
\* value above 200 being always counted in it.
C24_PositionRange ==
  /\ ~halted
  /\ (op.name = "readLine" /\ InCalibratedRange) =>
       /\ op.ret \in 0 .. (numSensors - 1) * 1000
       /\ lastValue \in 0 .. (numSensors - 1) * 1000
       /\ op.online => /\ Sum(op.bufOut, op.white, numSensors) > 0
                       /\ \A i \in Indices(numSensors) :
                            LineValue(op.bufOut, op.white, i) > OnLineThreshold =>
                              Sum(op.bufOut, op.white, numSensors)
                                >= LineValue(op.bufOut, op.white, i)

\* a white line under the last of four sensors only: readLine has divided and
\* returned the highest position, 3000
C24_Witness ==
  /\ numSensors = LineSensors
  /\ op.name = "readLine"
  /\ op.white
  /\ op.online
  /\ InCalibratedRange
  /\ Sum(op.bufOut, op.white, numSensors) = CalibratedMax
  /\ op.ret = (numSensors - 1) * 1000


(***************************************************************************)
(* The stored bounds across calibrate calls, checked under SpecCal (pin    *)
(* array present) and SpecNull (pin array missing).                        *)
(***************************************************************************)
\* a step of a call that may replace the stored bounds outright
Recalibrates == op'.name \in {"init", "resetCalibration"}

\* array q holds, sensor by sensor, at least what array p holds
NotBelow(p, q) == \A i \in Indices(numSensors) : q.v[i] >= p.v[i]

\* an allocated array holds values of [0, _maxValue] only
InReadingRange(p) ==
  p.alloc => \A i \in Indices(numSensors) : p.v[i] \in 0 .. maxValue

\* the stored bounds of condition c move outwards only, once allocated
Widens(c) ==
  /\ MaximumOf(c).alloc => (MaximumOf(c)'.alloc /\ NotBelow(MaximumOf(c), MaximumOf(c)'))
  /\ MinimumOf(c).alloc => (MinimumOf(c)'.alloc /\ NotBelow(MinimumOf(c)', MinimumOf(c)))

\* a step of the calibrateOnOrOff call for the other condition leaves the
\* bounds of condition c alone
OtherUntouched(c) ==
  (cal.stage # "idle" /\ cal.cond # c) =>
     (MaximumOf(c)' = MaximumOf(c) /\ MinimumOf(c)' = MinimumOf(c))

\* C25: across any sequence of calibrate calls, without resetCalibration and
\* without a new init, every stored maximum never decreases and every stored
\* minimum never increases, both stay within [0, _maxValue], and calibrating one
\* condition leaves the bounds of the other unchanged.
C25_BoundsWiden ==
  [][~Recalibrates =>
       \A c \in {"on", "off"} :
         /\ Widens(c)
         /\ InReadingRange(MaximumOf(c)')
         /\ InReadingRange(MinimumOf(c)')
         /\ OtherUntouched(c)]_vars

\* C25 without the range of the stored values
C25_OutwardsOnly ==
  [][~Recalibrates => \A c \in {"on", "off"} : Widens(c) /\ OtherUntouched(c)]_vars


(***************************************************************************)
(* SpecSize: arrays of 1, 16, 17 and 31 sensors, initialized again with    *)
(* any of these counts or with 32; read and calibrate with every sensor    *)
(* seeing the same surface.  malloc succeeds.                              *)
(***************************************************************************)
\* "unsigned int off_values[QTR_MAX_SENSORS];" of read
OffValuesLen == QTR_MAX_SENSORS

SizeCounts == {1, ScratchLen, ScratchLen + 1, QTR_MAX_SENSORS, QTR_MAX_SENSORS + 1}

InitSize ==
  \E n \in SizeCounts : n <= QTR_MAX_SENSORS /\ Setup(FALSE, n, SmallTimeout)

NextSize ==
  \/ \E n \in SizeCounts : InitCall(n, SmallTimeout)
  \/ /\ Ready
     /\ \E mode \in {QTR_EMITTERS_ON, QTR_EMITTERS_ON_AND_OFF},
           r \in UniformReadings(numSensors, maxValue) :
          ReadCall(mode, Row(numSensors, 0), r, r)
  \/ \E mode \in {QTR_EMITTERS_ON, QTR_EMITTERS_OFF, QTR_EMITTERS_ON_AND_OFF} :
       CalibrateCall(mode)
  \/ CalibrateAlloc(TRUE, TRUE)
  \/ /\ cal.stage = "loop"
     /\ \E r \in UniformReadings(numSensors, maxValue) : CalibratePass(r)
  \/ CalibrateRecord
  \/ Return

SpecSize == InitSize /\ [][NextSize]_vars

\* an allocated bounds array has one element per sensor
OnePerSensor(p) == p.alloc => DOMAIN p.v = Indices(numSensors)

BoundsFit ==
  /\ OnePerSensor(calibratedMinimumOn)
  /\ OnePerSensor(calibratedMaximumOn)
  /\ OnePerSensor(calibratedMinimumOff)
  /\ OnePerSensor(calibratedMaximumOff)

\* C26: the stored sensor count never exceeds 31, larger counts being clamped, and
\* for every count that can be stored every array indexed by sensor number during
\* calibrate and read has at least that many elements: the scratch arrays of
\* calibrate, the off-reading array of read, the pin array and the bounds arrays.
C26_ArraysFit ==
  /\ numSensors <= QTR_MAX_SENSORS
  /\ ~halted
  /\ cal.stage = "loop" => numSensors <= ScratchLen
  /\ numSensors <= OffValuesLen
  /\ numSensors <= pinsLen
  /\ BoundsFit

\* C26 for the count, the off-reading array of read and the bounds arrays
C26_CountClamped ==
  /\ numSensors <= QTR_MAX_SENSORS
  /\ numSensors <= OffValuesLen
  /\ BoundsFit

\* the only overruns: a calibrate pass on more than 16 sensors, and an init on an
\* array whose pin array was allocated for fewer than 31 sensors
C26_OverrunsOnly ==
  [][(halted' /\ ~halted) =>
       \/ cal.stage = "loop" /\ numSensors > ScratchLen
       \/ Ready /\ pinsLen < QTR_MAX_SENSORS]_vars

====
